---- MODULE Spec2Model ----
(***************************************************************************)
(* Model of the fast semantic-matching and suggestion pipeline of          *)
(* backend/app/openai_fast.py: generate_embeddings_batch,                  *)
(* cosine_similarity, fast_match_chunks, fast_generate_suggestion and      *)
(* analyze_document_fast, and of generate_stable_chunk_id of               *)
(* backend/app/utils/id_generation.py, and of call_openai_with_retry of    *)
(* backend/app/routes_games.py.  Every await on the upstream               *)
(* service (chat completion or embedding) is a position of the request     *)
(* (pc), and the upstream's answer is an input of the action that resumes  *)
(* the request.  One request runs at a time, except in SpecConcurrent,     *)
(* where two requests interleave at their awaits.                          *)
(*                                                                         *)
(* Text is a sequence of one-character strings, so that strip, startswith, *)
(* endswith, slicing, lower and join are computed as Python computes them. *)
(* Embedding vectors are sequences of integers.  cosine_similarity itself  *)
(* is computed in rounded binary floating point (CosineFloat); where       *)
(* fast_match_chunks ranks candidates, the similarities are compared as    *)
(* exact fractions.                                                        *)
(***************************************************************************)
EXTENDS Integers, Sequences, FiniteSets, TLC

VARIABLES
    op,        \* the function the request is running: "none" before the call
    pc,        \* "idle", "await_chat", "await_embed", "done" (returned), "failed" (raised)
    args,      \* the arguments of the call
    local,     \* the local variables kept across an await
    chatLog,   \* the chat-completion requests issued so far, in order
    embedLog,  \* the embedding requests issued so far, in order: each a list of texts
    resp,      \* the last answer of the upstream service
    ret,       \* the value returned (pc = "done")
    err        \* the exception raised (pc = "failed")

vars == <<op, pc, args, local, chatLog, embedLog, resp, ret, err>>

(***************************************************************************)
(* Bounds of the model.                                                    *)
(***************************************************************************)
MaxLen == 5        \* longest generative-model answer, in characters
MaxSources == 4    \* longest matched-chunk list of the prompt specification
MaxRetries == 3    \* largest max_retries handed to call_openai_with_retry
MaxIndexed == 11   \* most chunks of a document in the chunk-building specification
MaxMatched == 2    \* longest matched-chunk list handed to fast_generate_suggestion
MaxCand == 3       \* longest candidate list handed to fast_match_chunks
MaxTexts == 3      \* longest text list handed to generate_embeddings_batch
MaxChunks == 2     \* most chunks in one discovery answer
MaxIdCalls == 2    \* most calls of generate_stable_chunk_id compared with each other
MaxCoord == 3      \* largest coordinate of a vector handed to cosine_similarity
MantissaBits == 4  \* significand bits of the floating point of the model (float64: 53)

(***************************************************************************)
(* Text.                                                                   *)
(***************************************************************************)
Quote == "\""
Space == " "

\* The characters a generative-model answer is made of in this model.
Alphabet == {Space, Quote, "N", "n", "/", "A", "a"}

\* All texts of length at most n over the characters in S.
TextsUpTo(S, n) == UNION {[1..k -> S] : k \in 0..n}

IsSpace(c) == c = Space

RECURSIVE LStrip(_)
LStrip(s) == IF s # <<>> /\ IsSpace(Head(s)) THEN LStrip(Tail(s)) ELSE s

RECURSIVE RStrip(_)
RStrip(s) ==
    IF s # <<>> /\ IsSpace(s[Len(s)]) THEN RStrip(SubSeq(s, 1, Len(s) - 1)) ELSE s

\* str.strip()
Strip(s) == RStrip(LStrip(s))

\* str.lower(), character by character
LowerChar(c) == CASE c = "N" -> "n" [] c = "A" -> "a" [] OTHER -> c
Lower(s) == [i \in 1..Len(s) |-> LowerChar(s[i])]

\* s[1:-1]
DropEnds(s) == SubSeq(s, 2, Len(s) - 1)

\* " ".join(parts)
RECURSIVE JoinSpace(_)
JoinSpace(parts) ==
    IF parts = <<>> THEN <<>>
    ELSE IF Len(parts) = 1 THEN parts[1]
    ELSE parts[1] \o <<Space>> \o JoinSpace(Tail(parts))

(***************************************************************************)
(* The upstream service.                                                   *)
(***************************************************************************)
NoResp == [kind |-> "none"]
RaisedBy(service) == [kind |-> "raise", service |-> service]

\* response.choices[0].message.content: None, or a text
NoneContent == [none |-> TRUE, text |-> <<>>]
TextContent(s) == [none |-> FALSE, text |-> s]

\* the exceptions of the upstream client, by the service that failed
ChatServiceError == "ChatServiceError"
EmbeddingServiceError == "EmbeddingServiceError"
NoError == "none"

\* what a function hands its caller: an exception raised, or a value returned
Raise(error) == [raised |-> error, value |-> <<>>]
Return(value) == [raised |-> NoError, value |-> value]

(***************************************************************************)
(* fast_generate_suggestion                                                *)
(***************************************************************************)
NA == <<"N", "/", "A">>
LowerNA == <<"n", "/", "a">>
FallbackSentence == <<"No relevant information found in your documents for this field.">>

\* dict.get(key, default) of a dict held as a record
Get(dict, key, default) == IF key \in DOMAIN dict THEN dict[key] ELSE default

\* a value that is None or an int
NoneInt == [none |-> TRUE, n |-> 0]
IntValue(n) == [none |-> FALSE, n |-> n]

\* the truth value Python gives a None-or-int
Truthy(x) == ~x.none /\ x.n # 0

\* int(n * 0.9): the product truncated towards zero
TruncNineTenths(n) == IF n >= 0 THEN (9 * n) \div 10 ELSE -((9 * (-n)) \div 10)

ShortFieldLimit == 300

\* the three length instructions, by the numbers formatted into them
AimInstruction(low, high) == [kind |-> "aim", low |-> low, high |-> high]
MaximumInstruction(high) == [kind |-> "maximum", high |-> high]
NoLimitInstruction == [kind |-> "no_limit"]

\* a variant that asks only whether max_length is an int
LengthInstructionByPresence(max_length) ==
    IF ~max_length.none /\ max_length.n <= ShortFieldLimit
    THEN AimInstruction(TruncNineTenths(max_length.n), max_length.n)
    ELSE IF ~max_length.none THEN MaximumInstruction(max_length.n)
    ELSE NoLimitInstruction

\* lines 309-314
LengthInstruction(max_length) ==
    IF Truthy(max_length) /\ max_length.n <= ShortFieldLimit
    THEN AimInstruction(TruncNineTenths(max_length.n), max_length.n)
    ELSE IF Truthy(max_length) THEN MaximumInstruction(max_length.n)
    ELSE NoLimitInstruction

TopSources == 3

\* a variant that labels every matched chunk
AllSources(matched_chunks) == matched_chunks

\* matched_chunks[:3]
FirstSources(matched_chunks) ==
    SubSeq(matched_chunks, 1, IF Len(matched_chunks) < TopSources
                              THEN Len(matched_chunks) ELSE TopSources)

\* lines 298-302: the lines "[Source i] body", as the pairs of i and body
ChunksContext(matched_chunks) ==
    LET top == FirstSources(matched_chunks)
    IN  [i \in 1..Len(top) |-> [source |-> i, body |-> Get(top[i], "body", <<>>)]]

UnknownField == <<"Unknown field">>

\* lines 304-337 and 348-358: the prompt sent, by the parts formatted into it
SuggestChatRequest(field_context, matched_chunks) ==
    [kind |-> "suggest",
     label |-> Get(field_context, "label_text", UnknownField),
     length_instruction |-> LengthInstruction(Get(field_context, "max_length", NoneInt)),
     chunks_context |-> ChunksContext(matched_chunks)]

\* a variant that removes the quotes only of a text of two characters or more
RemoveQuotePair(s) ==
    IF Len(s) >= 2 /\ Head(s) = Quote /\ s[Len(s)] = Quote THEN DropEnds(s) ELSE s

\* lines 372-374
RemoveQuotes(s) ==
    IF Head(s) = Quote /\ s[Len(s)] = Quote THEN DropEnds(s) ELSE s

\* lines 360-384: the value returned for the answer `content`
PostProcess(content) ==
    IF content.none \/ content.text = <<>> THEN NA
    ELSE LET stripped == Strip(content.text) IN
         IF stripped = <<>> THEN NA
         ELSE LET unquoted == RemoveQuotes(stripped) IN
              IF unquoted = <<>> \/ Lower(unquoted) = LowerNA
              THEN FallbackSentence
              ELSE unquoted

\* a variant that always asks the model
SuggestNeverShortCircuits(matched_chunks) == FALSE

\* lines 294-295: `if not matched_chunks: return "N/A"`
SuggestShortCircuits(matched_chunks) == matched_chunks = <<>>

SuggestChunk == [body |-> <<"b">>]
MatchedLists == UNION {[1..k -> {SuggestChunk}] : k \in 0..MaxMatched}
FieldContexts == {[label_text |-> <<"L">>]}

Idle ==
    /\ op = "none" /\ pc = "idle" /\ args = <<>> /\ local = <<>>
    /\ chatLog = <<>> /\ embedLog = <<>>
    /\ resp = NoResp /\ ret = <<>> /\ err = NoError

\* the call, up to the await of line 348 (or the return of line 295)
SuggestStarts(fc, mc) ==
    /\ op' = "suggest"
    /\ args' = [field_context |-> fc, matched_chunks |-> mc]
    /\ IF SuggestShortCircuits(mc)
       THEN /\ pc' = "done"
            /\ ret' = NA
            /\ chatLog' = chatLog
       ELSE /\ pc' = "await_chat"
            /\ ret' = ret
            /\ chatLog' = Append(chatLog, SuggestChatRequest(fc, mc))
    /\ UNCHANGED <<local, embedLog, resp, err>>

SuggestCall ==
    /\ pc = "idle"
    /\ \E fc \in FieldContexts, mc \in MatchedLists : SuggestStarts(fc, mc)

\* the chat completion answers: lines 360-384
SuggestChatReturns ==
    /\ op = "suggest" /\ pc = "await_chat"
    /\ \E content \in {NoneContent} \cup {TextContent(s) : s \in TextsUpTo(Alphabet, MaxLen)} :
        /\ resp' = [kind |-> "chat", content |-> content]
        /\ ret' = PostProcess(content)
    /\ pc' = "done"
    /\ UNCHANGED <<op, args, local, chatLog, embedLog, err>>

\* a variant that answers a failure of the model with the fallback sentence
SuggestSwallowsError == Return(FallbackSentence)

\* lines 386-388: `except Exception as e: ... raise`
SuggestOnError == Raise(ChatServiceError)

\* the end of the call with `outcome`
SuggestEnds(outcome) ==
    IF outcome.raised # NoError
    THEN pc' = "failed" /\ err' = outcome.raised /\ ret' = ret
    ELSE pc' = "done" /\ ret' = outcome.value /\ err' = err

\* the chat completion raises: lines 386-388
SuggestChatRaises ==
    /\ op = "suggest" /\ pc = "await_chat"
    /\ resp' = RaisedBy("chat")
    /\ SuggestEnds(SuggestOnError)
    /\ UNCHANGED <<op, args, local, chatLog, embedLog>>

NextSuggest == SuggestCall \/ SuggestChatReturns \/ SuggestChatRaises

SpecSuggest == Idle /\ [][NextSuggest]_vars

SuggestReturned == op = "suggest" /\ pc = "done"

\* the answers the claim calls degenerate: null, empty, whitespace only, or
\* "N/A" in any letter case, plain or wrapped in double quotes
DegenerateAnswer(content) ==
    \/ content.none
    \/ Strip(content.text) = <<>>
    \/ Lower(Strip(content.text)) = LowerNA
    \/ Lower(Strip(content.text)) = <<Quote>> \o LowerNA \o <<Quote>>
    \/ Strip(content.text) = <<Quote, Quote>>

\* C1: with a non-empty matched-chunk list, whatever the model answers,
\* fast_generate_suggestion returns neither "" nor "N/A", and returns the fixed
\* fallback sentence for every degenerate answer.
C1_NeverEmptyNorNA ==
    (SuggestReturned /\ args.matched_chunks # <<>>) =>
        /\ ret # <<>>
        /\ ret # NA
        /\ DegenerateAnswer(resp.content) => ret = FallbackSentence

\* C2: with an empty matched-chunk list fast_generate_suggestion has returned
\* exactly "N/A" and has issued no call to the generative model.
C2_EmptyListShortCircuit ==
    (op = "suggest" /\ args.matched_chunks = <<>>) =>
        /\ pc = "done"
        /\ ret = NA
        /\ chatLog = <<>>

\* C16: for a non-empty matched-chunk list fast_generate_suggestion sends
\* exactly one request to the generative model; when that request raises, the
\* call ends with that error, returns nothing and sends no second request.
C16_OneCallNoRetry ==
    (op = "suggest" /\ args.matched_chunks # <<>>) =>
        /\ chatLog = <<SuggestChatRequest(args.field_context, args.matched_chunks)>>
        /\ resp = RaisedBy("chat") =>
              /\ pc = "failed"
              /\ err = ChatServiceError
              /\ ret = <<>>

C16_Witness ==
    /\ op = "suggest"
    /\ args.matched_chunks # <<>>
    /\ resp = RaisedBy("chat")
    /\ pc = "failed"
    /\ Len(chatLog) = 1

\* the model answered with a text that is not whitespace only
AnsweredWithText ==
    /\ SuggestReturned
    /\ resp.kind = "chat"
    /\ ~resp.content.none
    /\ Strip(resp.content.text) # <<>>

\* startswith('"') and endswith('"')
StartsAndEndsWithQuote(s) == s[1] = Quote /\ s[Len(s)] = Quote

\* C24 as stated: the stripped answer wrapped in a pair of double quotes is
\* returned as the text between the quotes; any other stripped answer that is
\* not empty and not "n/a" is returned unchanged.
C24_QuotesRemoved ==
    AnsweredWithText =>
        LET stripped == Strip(resp.content.text)
        IN  IF Len(stripped) >= 2 /\ StartsAndEndsWithQuote(stripped)
            THEN ret = DropEnds(stripped)
            ELSE Lower(stripped) # LowerNA => ret = stripped

\* C24, amended: the stripped answer that starts and ends with a double quote
\* loses its first and last character (a lone quote loses itself) and is not
\* stripped again; what is left is returned, or the fallback sentence when it
\* is empty or "n/a" in any letter case; any other stripped answer that is not
\* "n/a" is returned unchanged.
C24_QuotesThenFallback ==
    AnsweredWithText =>
        LET stripped == Strip(resp.content.text)
        IN  IF StartsAndEndsWithQuote(stripped)
            THEN LET between == SubSeq(stripped, 2, Len(stripped) - 1)
                 IN  IF between = <<>> \/ Lower(between) = LowerNA
                     THEN ret = FallbackSentence
                     ELSE ret = between
            ELSE Lower(stripped) # LowerNA => ret = stripped

\* the answer is one double quote between spaces
C24_Witness ==
    /\ AnsweredWithText
    /\ resp.content.text = <<Space, Quote, Space>>
    /\ ret = FallbackSentence

(***************************************************************************)
(* fast_generate_suggestion, over the fields and the matched lists that    *)
(* decide its prompt; the model answers with one of a few contents.        *)
(***************************************************************************)
MaxLengths ==
    {NoneInt} \cup {IntValue(n) : n \in {-1, 0, 1, 9, 10, 299, 300, 301, 1000}}

PromptFieldContexts ==
    {[label_text |-> <<"L">>]} \cup {[max_length |-> m] : m \in MaxLengths}

\* matched chunks: three with a body each, one without the key
PromptChunks ==
    {[body |-> <<"a">>], [body |-> <<"b">>], [body |-> <<"c">>], [semantic_tags |-> <<>>]}

PromptMatchedLists == UNION {[1..k -> PromptChunks] : k \in 0..MaxSources}

PromptCall ==
    /\ pc = "idle"
    /\ \E fc \in PromptFieldContexts, mc \in PromptMatchedLists : SuggestStarts(fc, mc)

PromptContents ==
    {NoneContent, TextContent(<<"a">>), TextContent(<<Space, Quote, "a", Quote>>)}

PromptChatReturns ==
    /\ op = "suggest" /\ pc = "await_chat"
    /\ \E content \in PromptContents :
        /\ resp' = [kind |-> "chat", content |-> content]
        /\ ret' = PostProcess(content)
    /\ pc' = "done"
    /\ UNCHANGED <<op, args, local, chatLog, embedLog, err>>

NextPrompt == PromptCall \/ PromptChatReturns \/ SuggestChatRaises

SpecPrompt == Idle /\ [][NextPrompt]_vars

\* the max_length the call reads: None when the key is missing or null
MaxLengthRead == Get(args.field_context, "max_length", NoneInt)

PromptSent == op = "suggest" /\ Len(chatLog) = 1

\* C23 as stated: a max_length that is present and at most 300 gives the
\* instruction to aim for 90% to 100% of it, a present larger one gives it as a
\* hard maximum, an absent one gives the no-limit instruction.
C23_ByPresence ==
    PromptSent =>
        LET m == MaxLengthRead
            sent == chatLog[1].length_instruction
        IN  /\ (~m.none /\ m.n <= ShortFieldLimit) =>
                    sent = AimInstruction(TruncNineTenths(m.n), m.n)
            /\ (~m.none /\ m.n > ShortFieldLimit) => sent = MaximumInstruction(m.n)
            /\ m.none => sent = NoLimitInstruction

\* C23, amended: a max_length that is non-zero and at most 300 gives the
\* instruction to aim for int(0.9 * max_length) to max_length characters, a
\* larger one gives max_length as a hard maximum, and a max_length that is
\* missing, null or 0 gives the no-limit instruction.
C23_ByTruthiness ==
    PromptSent =>
        LET m == MaxLengthRead
            sent == chatLog[1].length_instruction
        IN  /\ (~m.none /\ m.n # 0 /\ m.n <= ShortFieldLimit) =>
                    sent = AimInstruction(TruncNineTenths(m.n), m.n)
            /\ (~m.none /\ m.n > ShortFieldLimit) => sent = MaximumInstruction(m.n)
            /\ (m.none \/ m.n = 0) => sent = NoLimitInstruction

C23_Witness ==
    /\ PromptSent
    /\ MaxLengthRead = IntValue(0)
    /\ chatLog[1].length_instruction = NoLimitInstruction

\* C26: the prompt carries one "[Source i] body" line for each of the first 3
\* matched chunks and for no other, i counting from 1 in the order of the list,
\* a chunk without a body giving an empty body.
C26_TopThreeSources ==
    PromptSent =>
        LET sent == chatLog[1].chunks_context
            matched == args.matched_chunks
        IN  /\ Len(sent) = IF Len(matched) < 3 THEN Len(matched) ELSE 3
            /\ \A i \in 1..Len(sent) :
                  /\ sent[i].source = i
                  /\ sent[i].body = IF "body" \in DOMAIN matched[i]
                                    THEN matched[i].body ELSE <<>>

\* four matched chunks, the fourth with a body none of the first three has
C26_Witness ==
    /\ PromptSent
    /\ Len(args.matched_chunks) = 4
    /\ args.matched_chunks[4] = [body |-> <<"c">>]
    /\ chatLog[1].chunks_context = <<[source |-> 1, body |-> <<"b">>],
                                     [source |-> 2, body |-> <<"a">>],
                                     [source |-> 3, body |-> <<>>]>>

C2_Witness ==
    SuggestReturned /\ args.matched_chunks = <<>> /\ ret = NA /\ chatLog = <<>>

(***************************************************************************)
(* generate_embeddings_batch                                               *)
(***************************************************************************)
\* the texts and the vectors of the embedding specification
EmbedTexts == {<<"a">>, <<"b">>}
TextLists == UNION {[1..k -> EmbedTexts] : k \in 0..MaxTexts}
ServiceVectors == {<<1, 0>>, <<0, 1>>, <<1, 1>>}

\* response.data of the embeddings endpoint for the vectors vs it computed: one
\* item per input text, in input order, item i carrying index i (from 0)
EmbeddingData(vs) == [i \in 1..Len(vs) |-> [index |-> i - 1, embedding |-> vs[i]]]

\* a variant that asks the service even for no text
EmbedNeverShortCircuits(texts) == FALSE

\* lines 185-186: `if not texts: return np.array([])`
EmbedShortCircuits(texts) == texts = <<>>

\* a variant that returns the vectors in reverse order
EmbeddingsReversed(data) == [i \in 1..Len(data) |-> data[Len(data) + 1 - i].embedding]

\* lines 194-195: `[item.embedding for item in response.data]`
EmbeddingsOf(data) == [i \in 1..Len(data) |-> data[i].embedding]

\* a variant that swallows the failure and returns no vector
EmbedSwallowsError == Return(<<>>)

\* lines 197-199: the exception of the service is raised again
EmbedOnError == Raise(EmbeddingServiceError)

\* lines 188-199: what generate_embeddings_batch hands its caller for the
\* answer `answer` of the service
EmbedOutcome(answer) ==
    IF answer.kind = "raise" THEN EmbedOnError ELSE Return(EmbeddingsOf(answer.data))

\* the call, up to the await of line 189 (or the return of line 186)
EmbedCall ==
    /\ pc = "idle"
    /\ \E texts \in TextLists :
        /\ op' = "embed"
        /\ args' = [texts |-> texts]
        /\ IF EmbedShortCircuits(texts)
           THEN /\ pc' = "done"
                /\ ret' = <<>>
                /\ embedLog' = embedLog
           ELSE /\ pc' = "await_embed"
                /\ ret' = ret
                /\ embedLog' = Append(embedLog, texts)
    /\ UNCHANGED <<local, chatLog, resp, err>>

\* the embedding service answers: lines 194-195
EmbedServiceReturns ==
    /\ op = "embed" /\ pc = "await_embed"
    /\ \E vs \in [1..Len(embedLog[Len(embedLog)]) -> ServiceVectors] :
        /\ resp' = [kind |-> "embeddings", data |-> EmbeddingData(vs)]
        /\ ret' = EmbedOutcome(resp').value
    /\ pc' = "done"
    /\ UNCHANGED <<op, args, local, chatLog, embedLog, err>>

\* the embedding service fails: lines 197-199
EmbedServiceRaises ==
    /\ op = "embed" /\ pc = "await_embed"
    /\ resp' = RaisedBy("embeddings")
    /\ IF EmbedOutcome(resp').raised # NoError
       THEN pc' = "failed" /\ err' = EmbedOutcome(resp').raised /\ ret' = ret
       ELSE pc' = "done" /\ ret' = EmbedOutcome(resp').value /\ err' = err
    /\ UNCHANGED <<op, args, local, chatLog, embedLog>>

NextEmbed == EmbedCall \/ EmbedServiceReturns \/ EmbedServiceRaises

SpecEmbed == Idle /\ [][NextEmbed]_vars

EmbedReturned == op = "embed" /\ pc = "done"

\* C8: generate_embeddings_batch returns one vector per text, and vector i is
\* the one the service computed for text i: text i is input i of the request
\* and the vector is that of the response item with index i.
C8_PositionalAlignment ==
    EmbedReturned =>
        /\ Len(ret) = Len(args.texts)
        /\ \A i \in 1..Len(args.texts) :
            /\ embedLog[1][i] = args.texts[i]
            /\ \E j \in 1..Len(resp.data) :
                /\ resp.data[j].index = i - 1
                /\ ret[i] = resp.data[j].embedding

C8_Witness ==
    /\ EmbedReturned
    /\ Len(args.texts) = MaxTexts
    /\ args.texts[1] # args.texts[2]
    /\ ret[1] # ret[2]
    /\ ret[2] # ret[3]

\* C9: with an empty list generate_embeddings_batch has returned an empty
\* result and has issued no request to the embedding service.
C9_EmptyBatchNoRequest ==
    (op = "embed" /\ args.texts = <<>>) =>
        /\ pc = "done"
        /\ ret = <<>>
        /\ embedLog = <<>>

C9_Witness == EmbedReturned /\ args.texts = <<>> /\ ret = <<>> /\ embedLog = <<>>

(***************************************************************************)
(* cosine_similarity                                                       *)
(***************************************************************************)
RECURSIVE Dot(_, _)
\* np.dot of two vectors of equal length
Dot(v1, v2) ==
    IF v1 = <<>> THEN 0 ELSE Head(v1) * Head(v2) + Dot(Tail(v1), Tail(v2))

\* the square of np.linalg.norm
Norm2(v) == Dot(v, v)

\* np.dot raises ValueError for vectors of different lengths
DotRaises(v1, v2) == Len(v1) # Len(v2)

\* A similarity is the number num / sqrt(den2), den2 > 0.
ZeroSimilarity == [num |-> 0, den2 |-> 1]

\* lines 202-207, for vectors of equal length, as the quotient before rounding:
\* fast_match_chunks only compares similarities with each other
cosine_similarity(vec1, vec2) ==
    IF Norm2(vec1) # 0 /\ Norm2(vec2) # 0
    THEN [num |-> Dot(vec1, vec2), den2 |-> Norm2(vec1) * Norm2(vec2)]
    ELSE ZeroSimilarity

\* x < y, for similarities x and y
SimLess(x, y) ==
    CASE x.num >= 0 /\ y.num >= 0 -> x.num * x.num * y.den2 < y.num * y.num * x.den2
      [] x.num < 0 /\ y.num < 0 -> x.num * x.num * y.den2 > y.num * y.num * x.den2
      [] OTHER -> x.num < 0

SimEqual(x, y) == ~SimLess(x, y) /\ ~SimLess(y, x)

(***************************************************************************)
(* cosine_similarity in floating point.  numpy computes lines 204-207 on   *)
(* float64: each product, sum, square root and quotient is rounded to the  *)
(* nearest float, ties to even.  The model rounds in the same places, to   *)
(* MantissaBits significant bits and with no bound on the exponent.        *)
(***************************************************************************)
RECURSIVE Pow2(_)
Pow2(k) == IF k = 0 THEN 1 ELSE 2 * Pow2(k - 1)

RECURSIVE Float(_, _)
\* A float is the number n / d, d a power of two, in lowest terms.
Float(n, d) ==
    IF d > 1 /\ n % 2 = 0 THEN Float(n \div 2, d \div 2) ELSE [n |-> n, d |-> d]

FloatZero == Float(0, 1)
FloatOne == Float(1, 1)
\* 0.0 / 0.0 of numpy: nan, with a warning and no exception
NaN == [n |-> 0, d |-> 0]

Negated(x) == [n |-> 0 - x.n, d |-> x.d]

\* m * 2^e
Scaled(m, e) == IF e >= 0 THEN Float(m * Pow2(e), 1) ELSE Float(m, Pow2(0 - e))

RECURSIVE Normalized(_, _, _, _)
\* n / d = (n' / d') * base^e with base^(MantissaBits - 1) <= n' / d' < base^MantissaBits
Normalized(n, d, e, base) ==
    IF n >= Pow2(MantissaBits) * (IF base = 4 THEN Pow2(MantissaBits) ELSE 1) * d
    THEN Normalized(n, base * d, e + 1, base)
    ELSE IF n < Pow2(MantissaBits - 1) * (IF base = 4 THEN Pow2(MantissaBits - 1) ELSE 1) * d
    THEN Normalized(base * n, d, e - 1, base)
    ELSE [n |-> n, d |-> d, e |-> e]

\* the integer nearest to n / d, the even one of two
NearestEven(n, d) ==
    LET q == n \div d
        r == n % d
    IN  IF 2 * r < d THEN q
        ELSE IF 2 * r > d THEN q + 1
        ELSE IF q % 2 = 0 THEN q ELSE q + 1

\* the float nearest to n / d, d > 0
Rounded(n, d) ==
    LET Positive(k) == LET s == Normalized(k, d, 0, 2)
                       IN  Scaled(NearestEven(s.n, s.d), s.e)
    IN  IF n = 0 THEN FloatZero
        ELSE IF n < 0 THEN Negated(Positive(0 - n))
        ELSE Positive(n)

FloatMul(x, y) == Rounded(x.n * y.n, x.d * y.d)
FloatAdd(x, y) == Rounded(x.n * y.d + y.n * x.d, x.d * y.d)

\* x / y for y >= 0
FloatDiv(x, y) == IF y.n = 0 THEN NaN ELSE Rounded(x.n * y.d, x.d * y.n)

\* the float nearest to the square root of x, x >= 0
FloatSqrt(x) ==
    IF x.n = 0 THEN FloatZero
    ELSE LET s == Normalized(x.n, x.d, 0, 4)
             m == CHOOSE k \in Pow2(MantissaBits - 1)..(Pow2(MantissaBits) - 1) :
                      k * k * s.d <= s.n /\ s.n < (k + 1) * (k + 1) * s.d
             half == (2 * m + 1) * (2 * m + 1) * s.d
         IN  IF half < 4 * s.n THEN Scaled(m + 1, s.e)
             ELSE IF half > 4 * s.n THEN Scaled(m, s.e)
             ELSE Scaled(IF m % 2 = 0 THEN m ELSE m + 1, s.e)

RECURSIVE FloatDotFrom(_, _, _)
FloatDotFrom(sum, v1, v2) ==
    IF v1 = <<>> THEN sum
    ELSE FloatDotFrom(FloatAdd(sum, FloatMul(Rounded(Head(v1), 1), Rounded(Head(v2), 1))),
                      Tail(v1), Tail(v2))

\* line 204: np.dot of two vectors of equal length
FloatDot(v1, v2) == FloatDotFrom(FloatZero, v1, v2)

\* lines 205-206: np.linalg.norm, the square root of the dot product of the
\* vector with itself
FloatNorm(v) == FloatSqrt(FloatDot(v, v))

\* a variant that divides whatever the norms
CosineUnguarded(vec1, vec2) ==
    FloatDiv(FloatDot(vec1, vec2), FloatMul(FloatNorm(vec1), FloatNorm(vec2)))

\* lines 202-207 on floats, for vectors of equal length
CosineFloat(vec1, vec2) ==
    LET dot_product == FloatDot(vec1, vec2)
        norm1 == FloatNorm(vec1)
        norm2 == FloatNorm(vec2)
    IN  IF norm1.n # 0 /\ norm2.n # 0
        THEN FloatDiv(dot_product, FloatMul(norm1, norm2))
        ELSE FloatZero

\* x <= y, for floats x and y
FloatLeq(x, y) == x.n * y.d <= y.n * x.d

\* the inputs of the cosine specification
Coords == (0 - MaxCoord)..MaxCoord
CosineVectors ==
    UNION {[1..n -> Coords] : n \in 0..2} \cup {<<0, 0, 0>>, <<1, 1, 1>>, <<1, 2, 2>>}

\* one call of cosine_similarity
CosineCall ==
    /\ pc = "idle"
    /\ \E vec1, vec2 \in CosineVectors :
        /\ args' = [vec1 |-> vec1, vec2 |-> vec2]
        /\ IF DotRaises(vec1, vec2)
           THEN pc' = "failed" /\ err' = "ValueError" /\ ret' = ret
           ELSE pc' = "done" /\ ret' = CosineFloat(vec1, vec2) /\ err' = err
    /\ op' = "cosine"
    /\ UNCHANGED <<local, chatLog, embedLog, resp>>

NextCosine == CosineCall

SpecCosine == Idle /\ [][NextCosine]_vars

CosineEnded == op = "cosine" /\ pc \in {"done", "failed"}

ZeroVector(v) == \A i \in 1..Len(v) : v[i] = 0

\* C17 as stated: cosine_similarity returns exactly 0.0, and does not raise,
\* whenever one of the two vectors has norm zero.
C17_ZeroNormGivesZero ==
    (CosineEnded /\ (ZeroVector(args.vec1) \/ ZeroVector(args.vec2))) =>
        (pc = "done" /\ ret = FloatZero)

\* C17, amended: cosine_similarity returns exactly 0.0, and does not raise,
\* whenever the two vectors have the same length and one of them has norm
\* zero; for vectors of different lengths it raises ValueError, zero norm or
\* not.
C17_ZeroNormSameLength ==
    /\ (CosineEnded /\ Len(args.vec1) = Len(args.vec2)
           /\ (FloatNorm(args.vec1) = FloatZero \/ FloatNorm(args.vec2) = FloatZero)) =>
          (pc = "done" /\ ret = FloatZero)
    /\ (CosineEnded /\ Len(args.vec1) # Len(args.vec2)) =>
          (pc = "failed" /\ err = "ValueError" /\ ret = <<>>)

C17_Witness ==
    /\ CosineEnded
    /\ args.vec1 = <<0, 0>>
    /\ args.vec2 = <<1, 2>>
    /\ pc = "done"
    /\ ret = FloatZero

\* C18: for two vectors of equal length cosine_similarity returns a value in
\* [-1, 1], and the similarity of a vector that is not zero with itself is 1.
C18_UnitRange ==
    (op = "cosine" /\ pc = "done") =>
        /\ FloatLeq(Negated(FloatOne), ret) /\ FloatLeq(ret, FloatOne)
        /\ (args.vec1 = args.vec2 /\ ~ZeroVector(args.vec1)) => ret = FloatOne

(***************************************************************************)
(* fast_match_chunks                                                       *)
(***************************************************************************)
GeneralInformation == <<"general information">>

\* a value of a dictionary: the key is absent, holds None, or holds a value
AbsentField == [has |-> "absent", text |-> <<>>]
NullField == [has |-> "null", text |-> <<>>]
TextField(t) == [has |-> "text", text |-> t]

\* `field_context.get(key) or ''`
OrEmpty(field) == IF field.has = "text" THEN field.text ELSE <<>>

\* a variant that embeds the joined values as they are, and the fallback only
\* when the three values are all empty
FieldDescriptionUnstripped(field_context) ==
    LET values == <<OrEmpty(field_context.label_text),
                    OrEmpty(field_context.placeholder),
                    OrEmpty(field_context.name_attr)>>
    IN  IF values = <<<<>>, <<>>, <<>>>> THEN GeneralInformation ELSE JoinSpace(values)

\* lines 230-237
FieldDescription(field_context) ==
    LET field_desc == Strip(JoinSpace(<<OrEmpty(field_context.label_text),
                                        OrEmpty(field_context.placeholder),
                                        OrEmpty(field_context.name_attr)>>))
    IN  IF field_desc = <<>> THEN GeneralInformation ELSE field_desc

\* A candidate chunk, as far as matching reads it: id is its position in the
\* candidate list; metadata is absent, None or a dictionary; in a dictionary
\* the embedding is absent, None or a list of numbers.
Chunk(id, metadata, embedding, vec) ==
    [id |-> id, metadata |-> metadata, embedding |-> embedding, vec |-> vec]

\* line 249: `chunk.get('metadata', {})` of a chunk whose metadata is None is
\* None, and None.get raises AttributeError
MetadataRaises(chunk) == chunk.metadata = "null"

\* a variant that skips nothing
NothingLacksEmbedding(chunk) == FALSE

\* a variant that also skips a stored embedding of fewer than two numbers
LacksEmbeddingOrShort(chunk) ==
    \/ chunk.metadata = "absent"
    \/ chunk.embedding \in {"absent", "null"}
    \/ Len(chunk.vec) < 2

\* lines 249-252: `if not chunk_embedding_list: continue`
LacksEmbedding(chunk) ==
    \/ chunk.metadata = "absent"
    \/ chunk.embedding \in {"absent", "null"}
    \/ chunk.vec = <<>>

NoScanError == [raised |-> NoError, similarities |-> <<>>]

\* the embeddings of the matching specification: of the field, and stored
\* with the candidates
QueryVectors == {<<1, 0>>, <<1, 1>>, <<0, 0>>}
StoredVectors == {<<1, 0>>, <<2, 0>>, <<1, 1>>, <<-1, 0>>, <<0, 0>>, <<1>>}

RECURSIVE Similarities(_, _)
\* lines 246-262: the list `similarities`, or the exception the loop raises
Similarities(field_embedding, all_chunks) ==
    IF all_chunks = <<>> THEN NoScanError
    ELSE LET chunk == Head(all_chunks)
             rest == Similarities(field_embedding, Tail(all_chunks))
         IN  IF MetadataRaises(chunk)
             THEN [raised |-> "AttributeError", similarities |-> <<>>]
             ELSE IF LacksEmbedding(chunk) THEN rest
             ELSE IF DotRaises(field_embedding, chunk.vec)
             THEN [raised |-> "ValueError", similarities |-> <<>>]
             ELSE IF rest.raised # NoError THEN rest
             ELSE [raised |-> NoError,
                   similarities |->
                       <<[chunk |-> chunk,
                          similarity |-> cosine_similarity(field_embedding, chunk.vec)]>>
                       \o rest.similarities]

RECURSIVE InsertBeforeEqual(_, _)
\* a variant that puts a match in front of the matches equal to it
InsertBeforeEqual(sorted, match) ==
    IF sorted = <<>> THEN <<match>>
    ELSE IF ~SimLess(match.similarity, Head(sorted).similarity)
    THEN <<match>> \o sorted
    ELSE <<Head(sorted)>> \o InsertBeforeEqual(Tail(sorted), match)

RECURSIVE InsertDescending(_, _)
\* the place of one more match in a descending list: behind every match that
\* is not smaller
InsertDescending(sorted, match) ==
    IF sorted = <<>> THEN <<match>>
    ELSE IF SimLess(Head(sorted).similarity, match.similarity)
    THEN <<match>> \o sorted
    ELSE <<Head(sorted)>> \o InsertDescending(Tail(sorted), match)

\* a variant that does not sort
Unsorted(similarities) == similarities

RECURSIVE SortDescending(_)
\* line 265: list.sort(key=similarity, reverse=True); the sort is stable, and
\* with reverse=True equal keys keep their original order
SortDescending(similarities) ==
    IF similarities = <<>> THEN <<>>
    ELSE InsertDescending(
             SortDescending(SubSeq(similarities, 1, Len(similarities) - 1)),
             similarities[Len(similarities)])

Min(a, b) == IF a <= b THEN a ELSE b
Max(a, b) == IF a >= b THEN a ELSE b

\* a variant that keeps one match more
TopSlicePlusOne(similarities, top_k) ==
    SubSeq(similarities, 1, Min(Max(top_k, 0) + 1, Len(similarities)))

\* line 268: similarities[:top_k]; a negative top_k counts from the end
TopSlice(similarities, top_k) ==
    IF top_k >= 0
    THEN SubSeq(similarities, 1, Min(top_k, Len(similarities)))
    ELSE SubSeq(similarities, 1, Max(Len(similarities) + top_k, 0))

\* lines 242-275: what the call does with what generate_embeddings_batch
\* hands it
MatchOutcome(field_embeddings, all_chunks, top_k) ==
    IF field_embeddings.raised # NoError THEN field_embeddings
    ELSE IF field_embeddings.value = <<>> THEN Raise("IndexError")   \* line 243
    ELSE LET scan == Similarities(field_embeddings.value[1], all_chunks)
             top_matches == TopSlice(SortDescending(scan.similarities), top_k)
         IN  IF scan.raised # NoError
             THEN Raise(scan.raised)
             ELSE Return([i \in 1..Len(top_matches) |-> top_matches[i].chunk])

\* a variant that sends the description twice
MatchEmbedTwoItems(field_desc) == <<field_desc, field_desc>>

\* line 242: the batch handed to generate_embeddings_batch
MatchEmbedBatch(field_desc) == <<field_desc>>

\* the inputs of the matching specification
MatchFieldContexts ==
    { [label_text |-> AbsentField, placeholder |-> AbsentField, name_attr |-> AbsentField],
      [label_text |-> TextField(<<"e">>), placeholder |-> NullField, name_attr |-> AbsentField],
      [label_text |-> TextField(<<Space>>), placeholder |-> TextField(<<"p">>),
       name_attr |-> TextField(<<"n">>)],
      [label_text |-> TextField(<<Space>>), placeholder |-> TextField(<<>>),
       name_attr |-> NullField] }

\* what a candidate can carry: <<metadata, embedding, vec>>
StoredShapes ==
    {<<"absent", "absent", <<>>>>, <<"null", "absent", <<>>>>,
     <<"dict", "absent", <<>>>>, <<"dict", "null", <<>>>>, <<"dict", "list", <<>>>>}
    \cup {<<"dict", "list", v>> : v \in StoredVectors}

CandidateLists ==
    UNION {{[i \in 1..n |-> Chunk(i, shapes[i][1], shapes[i][2], shapes[i][3])] :
               shapes \in [1..n -> StoredShapes]} : n \in 0..MaxCand}

TopKs == (-1)..(MaxCand + 1)

\* the call, up to the await of line 242
MatchCall ==
    /\ pc = "idle"
    /\ \E fc \in MatchFieldContexts, cs \in CandidateLists, k \in TopKs :
        /\ op' = "match"
        /\ args' = [field_context |-> fc, all_chunks |-> cs, top_k |-> k]
        /\ local' = [field_desc |-> FieldDescription(fc)]
        /\ IF EmbedShortCircuits(MatchEmbedBatch(FieldDescription(fc)))
           THEN LET outcome == MatchOutcome(Return(<<>>), cs, k)
                IN  /\ pc' = "failed"
                    /\ err' = outcome.raised
                    /\ embedLog' = embedLog
           ELSE /\ pc' = "await_embed"
                /\ err' = err
                /\ embedLog' = Append(embedLog, MatchEmbedBatch(FieldDescription(fc)))
    /\ UNCHANGED <<chatLog, resp, ret>>

\* the rest of the call, for the answer `answer` of the embedding service
MatchResume(answer) ==
    LET outcome == MatchOutcome(EmbedOutcome(answer), args.all_chunks, args.top_k)
    IN  /\ resp' = answer
        /\ IF outcome.raised # NoError
           THEN pc' = "failed" /\ err' = outcome.raised /\ ret' = ret
           ELSE pc' = "done" /\ ret' = outcome.value /\ err' = err
        /\ UNCHANGED <<op, args, local, chatLog, embedLog>>

\* the embedding service answers: lines 243-275
MatchEmbedReturns ==
    /\ op = "match" /\ pc = "await_embed"
    /\ \E v \in QueryVectors :
        MatchResume([kind |-> "embeddings", data |-> EmbeddingData(<<v>>)])

\* the embedding service fails: lines 197-199, through line 242
MatchEmbedRaises ==
    /\ op = "match" /\ pc = "await_embed"
    /\ MatchResume(RaisedBy("embeddings"))

NextMatch == MatchCall \/ MatchEmbedReturns \/ MatchEmbedRaises

SpecMatch == Idle /\ [][NextMatch]_vars

MatchReturned == op = "match" /\ pc = "done"

\* the call has ended after the embedding service answered
MatchEnded == op = "match" /\ pc \in {"done", "failed"} /\ resp.kind = "embeddings"

\* the query embedding the service answered
QueryEmbedding == resp.data[1].embedding

\* the chunk carries a stored embedding
HasStoredEmbedding(chunk) ==
    chunk.metadata = "dict" /\ chunk.embedding = "list" /\ chunk.vec # <<>>

\* the chunk's metadata (absent, or a dictionary) carries no embedding
MetadataWithoutEmbedding(chunk) ==
    chunk.metadata \in {"absent", "dict"} /\ ~HasStoredEmbedding(chunk)

WithoutUnembedded(chunks) ==
    SelectSeq(chunks, LAMBDA chunk : ~MetadataWithoutEmbedding(chunk))

SimilarityOf(chunk) == cosine_similarity(QueryEmbedding, chunk.vec)

ReturnedIds == {ret[i].id : i \in 1..Len(ret)}

C4_AtMostTopK == MatchReturned => Len(ret) <= Max(args.top_k, 0)

\* What the slice of line 268 does keep: at most top_k chunks for top_k >= 0,
\* and all the ranked chunks but the last -top_k for a negative top_k.
TopKSliceLength ==
    MatchReturned =>
        LET ranked == Cardinality({i \in 1..Len(args.all_chunks) :
                                      HasStoredEmbedding(args.all_chunks[i])})
        IN  /\ args.top_k >= 0 => Len(ret) <= args.top_k
            /\ args.top_k < 0 => Len(ret) = Max(ranked + args.top_k, 0)

\* C5: the returned list is in non-increasing order of cosine similarity to
\* the query embedding, and no embedded candidate left out has a similarity
\* greater than that of a returned chunk.
C5_RankedTop ==
    MatchReturned =>
        /\ \A i, j \in 1..Len(ret) :
              i < j => ~SimLess(SimilarityOf(ret[i]), SimilarityOf(ret[j]))
        /\ \A i \in 1..Len(ret), c \in 1..Len(args.all_chunks) :
              (HasStoredEmbedding(args.all_chunks[c]) /\ c \notin ReturnedIds)
                  => ~SimLess(SimilarityOf(ret[i]), SimilarityOf(args.all_chunks[c]))

C5_Witness ==
    /\ MatchReturned
    /\ Len(ret) = 2
    /\ ret[1].id = 3
    /\ ret[2].id = 1
    /\ HasStoredEmbedding(args.all_chunks[2])
    /\ SimLess(SimilarityOf(ret[2]), SimilarityOf(ret[1]))
    /\ SimLess(SimilarityOf(args.all_chunks[2]), SimilarityOf(ret[2]))

\* C6: two returned chunks of equal similarity are in the order in which they
\* stood in the candidate list.
C6_StableTies ==
    MatchReturned =>
        \A i, j \in 1..Len(ret) :
            (i < j /\ SimEqual(SimilarityOf(ret[i]), SimilarityOf(ret[j])))
                => ret[i].id < ret[j].id

C6_Witness ==
    /\ MatchReturned
    /\ Len(ret) = 3
    /\ ret[1].id = 2
    /\ ret[2].id = 1 /\ ret[3].id = 3
    /\ ret[2].vec # ret[3].vec
    /\ SimEqual(SimilarityOf(ret[2]), SimilarityOf(ret[3]))

\* C7: a fast_match_chunks call issues no chat-completion request, and from
\* its await on it issues exactly one embedding request, whose batch is the
\* query description alone.
C7_OneEmbeddingNoChat ==
    op = "match" =>
        /\ chatLog = <<>>
        /\ Len(embedLog) = 1
        /\ embedLog[1] = <<FieldDescription(args.field_context)>>

C7_Witness ==
    /\ MatchReturned
    /\ Len(args.all_chunks) = MaxCand
    /\ Len(ret) = MaxCand
    /\ Len(embedLog) = 1
    /\ chatLog = <<>>

\* the three values of the field joined with spaces, None and a missing key
\* read as ''
JoinedFieldValues ==
    JoinSpace(<<OrEmpty(args.field_context.label_text),
                OrEmpty(args.field_context.placeholder),
                OrEmpty(args.field_context.name_attr)>>)

Spaces(n) == [i \in 1..n |-> Space]

MatchEmbedSent == op = "match" /\ embedLog # <<>>

\* C25 as stated: fast_match_chunks embeds the label, the placeholder and the
\* name attribute joined with spaces, or "general information" when the three
\* are all empty; the text it embeds is never empty.
C25_JoinedOrFallback ==
    MatchEmbedSent =>
        /\ embedLog = <<<<FieldDescriptionUnstripped(args.field_context)>>>>
        /\ embedLog[1][1] # <<>>

\* C25, amended: fast_match_chunks embeds the joined values without the
\* whitespace around them, or "general information" when nothing but
\* whitespace was joined; the text it embeds is never empty.
C25_StrippedOrFallback ==
    MatchEmbedSent =>
        /\ Len(embedLog) = 1 /\ Len(embedLog[1]) = 1
        /\ LET sent == embedLog[1][1]
               joined == JoinedFieldValues
           IN  /\ sent # <<>>
               /\ IF \A i \in 1..Len(joined) : IsSpace(joined[i])
                  THEN sent = GeneralInformation
                  ELSE /\ ~IsSpace(sent[1]) /\ ~IsSpace(sent[Len(sent)])
                       /\ \E before, after \in 0..Len(joined) :
                              joined = Spaces(before) \o sent \o Spaces(after)

\* a label of one space, an empty placeholder and a null name attribute
C25_Witness ==
    /\ MatchEmbedSent
    /\ JoinedFieldValues = <<Space, Space, Space>>
    /\ embedLog = <<<<GeneralInformation>>>>

\* the chunk's stored embedding is not empty and not as long as the query's
MismatchedEmbedding(chunk) ==
    HasStoredEmbedding(chunk) /\ Len(chunk.vec) # Len(QueryEmbedding)

\* the positions of the candidates with such an embedding
MismatchedPositions ==
    {i \in 1..Len(args.all_chunks) : MismatchedEmbedding(args.all_chunks[i])}

\* C30: once the query embedding is there, a candidate whose stored embedding
\* is not empty and has another length makes fast_match_chunks fail and return
\* nothing, whatever the other candidates are: with the ValueError of the
\* similarity computation (or, when a candidate with null metadata stands
\* before the first such candidate, with the AttributeError that one raised
\* already); and ValueError ends only the calls that have such a candidate.
C30_MismatchFailsCall ==
    MatchEnded =>
        /\ MismatchedPositions # {} =>
              LET first == CHOOSE i \in MismatchedPositions :
                               \A j \in MismatchedPositions : i <= j
              IN  /\ pc = "failed"
                  /\ ret = <<>>
                  /\ err = IF \E j \in 1..(first - 1) : args.all_chunks[j].metadata = "null"
                           THEN "AttributeError" ELSE "ValueError"
        /\ (pc = "failed" /\ err = "ValueError") => MismatchedPositions # {}

\* one candidate of the wrong length between two valid ones
C30_Witness ==
    /\ MatchEnded
    /\ Len(args.all_chunks) = 3
    /\ HasStoredEmbedding(args.all_chunks[1]) /\ ~MismatchedEmbedding(args.all_chunks[1])
    /\ MismatchedEmbedding(args.all_chunks[2])
    /\ HasStoredEmbedding(args.all_chunks[3]) /\ ~MismatchedEmbedding(args.all_chunks[3])
    /\ pc = "failed"
    /\ err = "ValueError"
    /\ ret = <<>>

(***************************************************************************)
(* generate_stable_chunk_id                                                *)
(***************************************************************************)
PreviewLen == 50

\* s[:n]
Prefix(s, n) == SubSeq(s, 1, Min(n, Len(s)))

\* hashlib.sha256(composite).hexdigest()[:16], kept symbolic: the digest of a
\* text is the text it was computed from
Sha256Hex16(composite) == [sha256_16 |-> composite]

\* None, where a str is expected: a text that no str of the model equals
PyNone == <<"None">>

\* `value or ""`, for a str or None
OrEmptyText(value) == IF value = PyNone THEN <<>> ELSE value

\* a variant that hashes the three parts kept apart
CompositeOfParts(source_file, section, body_preview) ==
    <<source_file, section, body_preview>>

\* f"{source_file}||{section}||{body_preview}"
Composite(source_file, section, body_preview) ==
    source_file \o <<"|", "|">> \o section \o <<"|", "|">> \o body_preview

\* a variant that hashes the whole body
IdOfWholeBody(source_file, section, body_preview) ==
    Sha256Hex16(Composite(source_file, OrEmptyText(section), OrEmptyText(body_preview)))

\* id_generation.py lines 16-26
generate_stable_chunk_id(source_file, section, body_preview) ==
    Sha256Hex16(Composite(source_file, OrEmptyText(section),
                          Prefix(OrEmptyText(body_preview), PreviewLen)))

\* the inputs of the identity specification
Repeat(c, n) == [i \in 1..n |-> c]
IdFiles == {<<"a">>, <<"a", "|", "|", "b">>}
IdSections == {PyNone, <<>>, <<"c">>, <<"b", "|", "|", "c">>}
IdBodies ==
    {PyNone, <<>>, <<"a">>,
     Repeat("x", PreviewLen - 1) \o <<"a">>,
     Repeat("x", PreviewLen) \o <<"a">>,
     Repeat("x", PreviewLen) \o <<"b">>,
     Repeat("x", PreviewLen) \o <<"b", "b">>}

\* one more call of generate_stable_chunk_id; `local` keeps the calls made so
\* far, each with its arguments and the id it returned
IdCall ==
    /\ op \in {"none", "id"}
    /\ Len(local) < MaxIdCalls
    /\ \E f \in IdFiles, sec \in IdSections, b \in IdBodies :
        /\ args' = [source_file |-> f, section |-> sec, body_preview |-> b]
        /\ ret' = generate_stable_chunk_id(f, sec, b)
        /\ local' = Append(local, [args |-> args', id |-> ret'])
    /\ op' = "id"
    /\ pc' = "done"
    /\ UNCHANGED <<chatLog, embedLog, resp, err>>

NextId == IdCall

SpecId == Idle /\ [][NextId]_vars

\* the first n characters of a body, None read as ""
Preview(body, n) == IF body = PyNone THEN <<>> ELSE SubSeq(body, 1, Min(n, Len(body)))

SameIdTriple(a, b) ==
    /\ a.source_file = b.source_file
    /\ OrEmptyText(a.section) = OrEmptyText(b.section)
    /\ Preview(a.body_preview, PreviewLen) = Preview(b.body_preview, PreviewLen)

\* C11: two calls of generate_stable_chunk_id with the same file, the same
\* section and bodies that agree on their first 50 characters return the same
\* id, whether the bodies are the same or differ further on.
C11_IdOfTriple ==
    \A i, j \in 1..Len(local) :
        (op = "id" /\ SameIdTriple(local[i].args, local[j].args))
            => local[i].id = local[j].id

C11_Witness ==
    /\ op = "id"
    /\ Len(local) = 2
    /\ local[1].args.body_preview # local[2].args.body_preview
    /\ Len(local[1].args.body_preview) > PreviewLen
    /\ Len(local[2].args.body_preview) > Len(local[1].args.body_preview)
    /\ SameIdTriple(local[1].args, local[2].args)
    /\ local[1].id = local[2].id

\* the file, "||", the section, "||" and the first 50 characters of the body
\* of a call, None read as ""
Concatenation(a) ==
    a.source_file \o <<"|", "|">> \o OrEmptyText(a.section) \o <<"|", "|">>
        \o Preview(a.body_preview, PreviewLen)

\* C29: two calls of generate_stable_chunk_id whose file, section and body
\* preview concatenate with "||" to the same text return the same id, also
\* when their files and sections differ.
C29_IdOfConcatenation ==
    \A i, j \in 1..Len(local) :
        (op = "id" /\ Concatenation(local[i].args) = Concatenation(local[j].args))
            => local[i].id = local[j].id

\* file "a" with section "b||c", then file "a||b" with section "c"
C29_Witness ==
    /\ op = "id"
    /\ Len(local) = 2
    /\ local[1].args.source_file = <<"a">>
    /\ local[1].args.section = <<"b", "|", "|", "c">>
    /\ local[2].args.source_file = <<"a", "|", "|", "b">>
    /\ local[2].args.section = <<"c">>
    /\ local[1].args.body_preview = local[2].args.body_preview
    /\ ~SameIdTriple(local[1].args, local[2].args)
    /\ local[1].id = local[2].id

(***************************************************************************)
(* analyze_document_fast                                                   *)
(***************************************************************************)
\* str(i) for the chunk indexes of the model
Digit(d) ==
    CASE d = 0 -> "0" [] d = 1 -> "1" [] d = 2 -> "2" [] d = 3 -> "3" [] d = 4 -> "4"
      [] d = 5 -> "5" [] d = 6 -> "6" [] d = 7 -> "7" [] d = 8 -> "8" [] d = 9 -> "9"

RECURSIVE Decimal(_)
Decimal(i) == IF i < 10 THEN <<Digit(i)>> ELSE Decimal(i \div 10) \o <<Digit(i % 10)>>

\* a variant that gives every chunk the same section
ChunkSectionUnnumbered(i) == <<"c", "h", "u", "n", "k", "_">>

\* f"chunk_{i}"
ChunkSection(i) == <<"c", "h", "u", "n", "k", "_">> \o Decimal(i)

\* the code points of the characters of the model, for the order of str
CodePoint(c) ==
    CASE c = " " -> 32 [] c = "\"" -> 34 [] c = "/" -> 47 [] c = "A" -> 65
      [] c = "N" -> 78 [] c = "a" -> 97 [] c = "b" -> 98 [] c = "t" -> 116
      [] c = "u" -> 117 [] OTHER -> 0

RECURSIVE TextLess(_, _)
\* a < b, for two str
TextLess(a, b) ==
    IF b = <<>> THEN FALSE
    ELSE IF a = <<>> THEN TRUE
    ELSE IF Head(a) = Head(b) THEN TextLess(Tail(a), Tail(b))
    ELSE CodePoint(Head(a)) < CodePoint(Head(b))

RECURSIVE SortedTexts(_)
\* sorted(list(S)), S a set of str
SortedTexts(S) ==
    IF S = {} THEN <<>>
    ELSE LET least == CHOOSE x \in S : \A y \in S \ {x} : TextLess(x, y)
         IN  <<least>> \o SortedTexts(S \ {least})

Range(f) == {f[i] : i \in DOMAIN f}

\* `dictionary.get(key, default)`: the default for an absent key only, None
\* for a key that holds null
GetOr(field, default) ==
    CASE field.has = "absent" -> default
      [] field.has = "null" -> PyNone
      [] OTHER -> field.text

\* lines 113, 120, 126: chunk_data.get("body", "")
ChunkBody(chunk_data) == GetOr(chunk_data.body, <<>>)

\* line 116: chunk_data.get("semantic_tags", [])
ChunkTags(chunk_data) == GetOr(chunk_data.semantic_tags, <<>>)

\* what the loop of lines 109-131 raises on a chunk: all_tags.update(None) at
\* line 117, None + " " at line 120
ChunkError(chunk_data) ==
    IF ChunkTags(chunk_data) = PyNone \/ ChunkBody(chunk_data) = PyNone
    THEN "TypeError" ELSE NoError

ChunksError(data) ==
    IF \E i \in 1..Len(data.chunks) : ChunkError(data.chunks[i]) # NoError
    THEN "TypeError" ELSE NoError

\* lines 116-121: the text embedded for a chunk
EmbeddingText(chunk_data) ==
    ChunkBody(chunk_data) \o <<Space>> \o JoinSpace(ChunkTags(chunk_data))

\* a variant that numbers the sections of the chunks from 1
BuildChunkFromOne(source_file_name, i, chunk_data) ==
    [id |-> generate_stable_chunk_id(source_file_name, ChunkSection(i + 1),
                                     ChunkBody(chunk_data)),
     source_file |-> source_file_name,
     body |-> ChunkBody(chunk_data),
     semantic_tags |-> ChunkTags(chunk_data),
     related_topics |-> chunk_data.related_topics,
     metadata |-> [has_embedding |-> FALSE, embedding |-> <<>>]]

\* lines 109-131: chunk i (from 0) of the discovery answer, before embedding
BuildChunk(source_file_name, i, chunk_data) ==
    [id |-> generate_stable_chunk_id(source_file_name, ChunkSection(i),
                                     ChunkBody(chunk_data)),
     source_file |-> source_file_name,
     body |-> ChunkBody(chunk_data),
     semantic_tags |-> ChunkTags(chunk_data),
     related_topics |-> chunk_data.related_topics,
     metadata |-> [has_embedding |-> FALSE, embedding |-> <<>>]]

BuildChunks(source_file_name, data) ==
    [i \in 1..Len(data.chunks) |-> BuildChunk(source_file_name, i - 1, data.chunks[i])]

\* lines 107, 121: texts_for_embedding
TextsForEmbedding(data) ==
    [i \in 1..Len(data.chunks) |-> EmbeddingText(data.chunks[i])]

\* a variant that stores the first vector of the batch in every chunk
AttachFirstToAll(chunks, embeddings) ==
    [i \in 1..Len(chunks) |->
        [chunks[i] EXCEPT !.metadata = [has_embedding |-> TRUE, embedding |-> embeddings[1]]]]

\* lines 137-138: chunk.metadata['embedding'] = embeddings[i].tolist()
AttachEmbeddings(chunks, embeddings) ==
    [i \in 1..Len(chunks) |->
        [chunks[i] EXCEPT !.metadata = [has_embedding |-> TRUE, embedding |-> embeddings[i]]]]

\* a variant that emits only the topics that some chunk names
LinkedTopicsOnly(data, chunks) ==
    LET all == [t \in 1..Len(data.discovered_topics) |->
                   LET topic_name == data.discovered_topics[t].topic
                       linked == SelectSeq(chunks,
                                           LAMBDA c : topic_name \in Range(c.related_topics))
                   IN  [topic |-> topic_name,
                        chunk_ids |-> [i \in 1..Len(linked) |-> linked[i].id]]]
    IN  SelectSeq(all, LAMBDA topic : topic.chunk_ids # <<>>)

\* lines 144-158
BuildTopics(data, chunks) ==
    [t \in 1..Len(data.discovered_topics) |->
        LET topic_name == data.discovered_topics[t].topic
            linked == SelectSeq(chunks, LAMBDA c : topic_name \in Range(c.related_topics))
        IN  [topic |-> topic_name,
             chunk_ids |-> [i \in 1..Len(linked) |-> linked[i].id]]]

\* a variant that keeps the tags in the order of the chunks, duplicates and all
TagsInChunkOrder(data) ==
    LET RECURSIVE Concat(_)
        Concat(n) == IF n = 0 THEN <<>>
                     ELSE Concat(n - 1) \o ChunkTags(data.chunks[n])
    IN  Concat(Len(data.chunks))

\* lines 106, 117, 165: sorted(list(all_tags)), all_tags the set of the tags of
\* the chunks
AllTags(data) ==
    SortedTexts(UNION {Range(ChunkTags(data.chunks[i])) : i \in 1..Len(data.chunks)})

\* lines 161-168
BuildIndex(source_file_name, data, chunks) ==
    [document_id |-> generate_stable_chunk_id(source_file_name, <<>>, <<>>),
     source_file |-> source_file_name,
     discovered_topics |-> BuildTopics(data, chunks),
     all_tags |-> AllTags(data),
     chunk_count |-> Len(chunks),
     chunks |-> chunks]

\* a variant that builds the index whatever became of the embeddings
IndexWithoutEmbeddings(source_file_name, data, embeddings) ==
    Return(BuildIndex(source_file_name, data, BuildChunks(source_file_name, data)))

\* lines 134-177: the rest of the call, for what generate_embeddings_batch
\* hands it
AnalyzeOutcome(source_file_name, data, embeddings) ==
    LET chunks == BuildChunks(source_file_name, data)
    IN  IF embeddings.raised # NoError THEN embeddings
        ELSE IF Len(embeddings.value) < Len(chunks) THEN Raise("IndexError")  \* line 138
        ELSE Return(BuildIndex(source_file_name, data,
                               AttachEmbeddings(chunks, embeddings.value)))

\* the inputs of the analysis specification
SourceFiles == {<<"a">>, <<"b">>}
DocumentTexts == {<<"d">>, <<"e">>}
Bodies == {AbsentField, NullField, TextField(<<"a">>), TextField(<<"b">>)}
TagLists == {AbsentField, NullField, TextField(<<<<"t">>>>),
             TextField(<<<<"u">>, <<"t">>>>)}
TopicNames == {"T1", "T2"}
RelatedLists == {<<>>, <<"T1">>}
TopicLists == {<<>>, <<[topic |-> "T1"]>>, <<[topic |-> "T2"], [topic |-> "T1"]>>}
ChunkDatas == [body : Bodies, semantic_tags : TagLists, related_topics : RelatedLists]
DiscoveryDatas ==
    [discovered_topics : TopicLists,
     chunks : UNION {[1..n -> ChunkDatas] : n \in 0..MaxChunks}]
AnalysisVectors == {<<1, 0>>, <<0, 1>>}

\* the answers of the discovery call: no content, a content that is not JSON,
\* or the JSON object `data`
NoContentAnswer == [parses |-> "none", data |-> <<>>]
NotJsonAnswer == [parses |-> "invalid", data |-> <<>>]
JsonAnswer(data) == [parses |-> "json", data |-> data]

DiscoveryRequest(text, source_file_name) == [kind |-> "discovery"]

\* a variant that answers a content that is not JSON with an index of no chunk
ParseFallback(source_file_name) ==
    Return(BuildIndex(source_file_name, [discovered_topics |-> <<>>, chunks |-> <<>>], <<>>))

\* lines 100, 175-177: json.loads raises, the handler re-raises
ParseFailure(source_file_name) == Raise("JSONDecodeError")

\* a variant that asks for the embedding of each text in a request of its own
EmbedRequestPerText(texts) == [i \in 1..Len(texts) |-> <<texts[i]>>]

\* line 134: the requests the call sends to the embedding service
AnalyzeEmbedRequests(texts) == <<texts>>

\* the call, up to the await of line 78
AnalyzeCall ==
    /\ pc = "idle"
    /\ \E text \in DocumentTexts, f \in SourceFiles :
        /\ op' = "analyze"
        /\ args' = [text |-> text, source_file_name |-> f]
        /\ chatLog' = Append(chatLog, DiscoveryRequest(text, f))
    /\ pc' = "await_chat"
    /\ UNCHANGED <<local, embedLog, resp, ret, err>>

\* the end of the call with `outcome`
AnalyzeEnds(outcome) ==
    IF outcome.raised # NoError
    THEN pc' = "failed" /\ err' = outcome.raised /\ ret' = ret
    ELSE pc' = "done" /\ ret' = outcome.value /\ err' = err

\* the discovery call answers: lines 89-134
AnalyzeChatReturns ==
    /\ op = "analyze" /\ pc = "await_chat"
    /\ \E content \in {NoContentAnswer, NotJsonAnswer}
                      \cup {JsonAnswer(d) : d \in DiscoveryDatas} :
        /\ resp' = [kind |-> "chat", content |-> content]
        /\ CASE content.parses = "none" ->          \* line 89: None.strip()
                  /\ AnalyzeEnds(Raise("AttributeError"))
                  /\ UNCHANGED <<local, embedLog>>
             [] content.parses = "invalid" ->       \* line 100: json.loads
                  /\ AnalyzeEnds(ParseFailure(args.source_file_name))
                  /\ UNCHANGED <<local, embedLog>>
             [] content.parses = "json" /\ ChunksError(content.data) # NoError ->
                  \* lines 117, 120
                  /\ AnalyzeEnds(Raise(ChunksError(content.data)))
                  /\ local' = [data |-> content.data]
                  /\ embedLog' = embedLog
             [] OTHER ->
                  LET texts == TextsForEmbedding(content.data)
                  IN  /\ local' = [data |-> content.data]
                      /\ IF EmbedShortCircuits(texts)
                         THEN /\ AnalyzeEnds(AnalyzeOutcome(args.source_file_name,
                                                            content.data, Return(<<>>)))
                              /\ embedLog' = embedLog
                         ELSE /\ pc' = "await_embed"
                              /\ embedLog' = embedLog \o AnalyzeEmbedRequests(texts)
                              /\ UNCHANGED <<ret, err>>
    /\ UNCHANGED <<op, args, chatLog>>

\* the discovery call fails: lines 175-177
AnalyzeChatRaises ==
    /\ op = "analyze" /\ pc = "await_chat"
    /\ resp' = RaisedBy("chat")
    /\ AnalyzeEnds(Raise(ChatServiceError))
    /\ UNCHANGED <<op, args, local, chatLog, embedLog>>

\* the rest of the call, for the answer `answer` of the embedding service
AnalyzeResume(answer) ==
    /\ resp' = answer
    /\ AnalyzeEnds(AnalyzeOutcome(args.source_file_name, local.data, EmbedOutcome(answer)))
    /\ UNCHANGED <<op, args, local, chatLog, embedLog>>

\* the embedding service answers: lines 136-173
AnalyzeEmbedReturns ==
    /\ op = "analyze" /\ pc = "await_embed"
    /\ \E vs \in [1..Len(embedLog[Len(embedLog)]) -> AnalysisVectors] :
        AnalyzeResume([kind |-> "embeddings", data |-> EmbeddingData(vs)])

\* the embedding service fails: lines 197-199, then lines 175-177
AnalyzeEmbedRaises ==
    /\ op = "analyze" /\ pc = "await_embed"
    /\ AnalyzeResume(RaisedBy("embeddings"))

NextAnalyze ==
    \/ AnalyzeCall
    \/ AnalyzeChatReturns
    \/ AnalyzeChatRaises
    \/ AnalyzeEmbedReturns
    \/ AnalyzeEmbedRaises

SpecAnalyze == Idle /\ [][NextAnalyze]_vars

\* a request is one call of analyze_document_fast or one direct call of
\* generate_embeddings_batch
NextAnalyzeOrEmbed == NextAnalyze \/ NextEmbed

SpecAnalyzeOrEmbed == Idle /\ [][NextAnalyzeOrEmbed]_vars

AnalyzeReturned == op = "analyze" /\ pc = "done"

EmbeddingRequestFailed == resp = RaisedBy("embeddings")

\* C10: when the embedding request fails, generate_embeddings_batch raises
\* that very error and returns no vector, and so does analyze_document_fast,
\* which returns no DocumentIndex; and a DocumentIndex it returns carries an
\* embedding on every chunk of the discovery answer, never on a part of them.
C10_AllOrNothing ==
    /\ (op \in {"embed", "analyze"} /\ EmbeddingRequestFailed) =>
          /\ pc = "failed"
          /\ err = EmbeddingServiceError
          /\ ret = <<>>
    /\ AnalyzeReturned =>
          /\ Len(ret.chunks) = Len(local.data.chunks)
          /\ \A i \in 1..Len(ret.chunks) : ret.chunks[i].metadata.has_embedding

C10_Witness ==
    /\ op = "analyze"
    /\ EmbeddingRequestFailed
    /\ Len(local.data.chunks) = MaxChunks
    /\ Len(embedLog[1]) = MaxChunks
    /\ pc = "failed"
    /\ err = EmbeddingServiceError

\* the discovery call answered, and what it answered
DiscoveryAnswer == IF resp.kind = "chat" THEN resp.content.parses ELSE "unanswered"

Omits(chunk_data) ==
    chunk_data.body.has = "absent" \/ chunk_data.semantic_tags.has = "absent"

HoldsNull(chunk_data) ==
    chunk_data.body.has = "null" \/ chunk_data.semantic_tags.has = "null"

SomeChunk(data, P(_)) == \E i \in 1..Len(data.chunks) : P(data.chunks[i])

AnalyzeEnded == op = "analyze" /\ pc \in {"done", "failed"}

AnalyzeFailedWith(errors) == pc = "failed" /\ err \in errors /\ ret = <<>>

C13_AtMostTwoUpstreamCalls ==
    op = "analyze" =>
        /\ Len(chatLog) = 1
        /\ chatLog[1] = DiscoveryRequest(args.text, args.source_file_name)
        /\ Len(embedLog) <= 1
        /\ embedLog # <<>> => Len(embedLog[1]) = Len(local.data.chunks)

C13_Witness ==
    /\ AnalyzeReturned
    /\ Len(ret.chunks) = MaxChunks
    /\ Len(chatLog) = 1
    /\ Len(embedLog) = 1

DiscoveryErrors == {ChatServiceError, "AttributeError", "JSONDecodeError", "TypeError"}

\* C14: in one call of analyze_document_fast the embedding request is sent
\* only once the discovery answer is there and parsed, with the texts of its
\* chunks; the topics are linked to chunks only once the embeddings are there
\* too; and after a failure of the discovery step no embedding is requested,
\* after a failure of either step nothing is linked or returned.
C14_StepOrder ==
    op = "analyze" =>
        /\ pc = "await_chat" => (local = <<>> /\ embedLog = <<>> /\ ret = <<>>)
        /\ embedLog # <<>> =>
              /\ local # <<>>
              /\ ChunksError(local.data) = NoError
              /\ embedLog = <<TextsForEmbedding(local.data)>>
        /\ pc = "await_embed" => (resp.kind = "chat" /\ ret = <<>>)
        /\ pc = "done" =>
              /\ resp.kind = "embeddings" \/ (resp.kind = "chat" /\ local.data.chunks = <<>>)
              /\ \A i \in 1..Len(ret.chunks) : ret.chunks[i].metadata.has_embedding
              /\ ret.discovered_topics = BuildTopics(local.data, ret.chunks)
        /\ pc = "failed" =>
              /\ ret = <<>>
              /\ err \in DiscoveryErrors => embedLog = <<>>
              /\ err \in DiscoveryErrors \cup {EmbeddingServiceError}
        /\ resp.kind = "raise" => pc = "failed"

C14_Witness ==
    /\ AnalyzeReturned
    /\ resp.kind = "embeddings"
    /\ embedLog = <<TextsForEmbedding(local.data)>>
    /\ Len(ret.chunks) = 2
    /\ Len(ret.discovered_topics) = 2
    /\ ret.discovered_topics[2].chunk_ids = <<ret.chunks[2].id>>

\* C19: in a DocumentIndex that analyze_document_fast returns, chunk_count is
\* the number of chunks, and all_tags lists, in increasing order and once each,
\* exactly the tags that some chunk carries.
C19_CountAndTags ==
    AnalyzeReturned =>
        /\ ret.chunk_count = Len(ret.chunks)
        /\ \A i \in 1..(Len(ret.all_tags) - 1) :
              TextLess(ret.all_tags[i], ret.all_tags[i + 1])
        /\ Range(ret.all_tags) =
              UNION {Range(ret.chunks[i].semantic_tags) : i \in 1..Len(ret.chunks)}

C19_Witness ==
    /\ AnalyzeReturned
    /\ ret.chunk_count = 2
    /\ ret.chunks[1].semantic_tags = <<<<"u">>, <<"t">>>>
    /\ ret.chunks[2].semantic_tags = <<<<"t">>>>
    /\ ret.all_tags = <<<<"t">>, <<"u">>>>

\* C20: document_id is the id of (source_file, "", ""), whatever the text, and
\* the id of the chunk at index i (from 0) is the id of (source_file,
\* "chunk_<i>", body of the chunk): both are fixed by the file name and the
\* discovered chunks in their order.
C20_DeterministicIds ==
    AnalyzeReturned =>
        /\ ret.document_id = Sha256Hex16(args.source_file_name \o <<"|", "|", "|", "|">>)
        /\ \A i \in 1..Len(ret.chunks) :
              ret.chunks[i].id =
                  generate_stable_chunk_id(args.source_file_name,
                                           <<"c", "h", "u", "n", "k", "_">> \o Decimal(i - 1),
                                           ret.chunks[i].body)

C20_Witness ==
    /\ AnalyzeReturned
    /\ args.text = <<"e">>
    /\ Len(ret.chunks) = 2
    /\ ret.chunks[1].body = ret.chunks[2].body
    /\ ret.chunks[1].id # ret.chunks[2].id
    /\ ret.chunks[2].id = Sha256Hex16(args.source_file_name
                              \o <<"|", "|", "c", "h", "u", "n", "k", "_", "1", "|", "|">>
                              \o ret.chunks[2].body)

\* the indexes of the returned chunks whose related_topics holds topic_name
ChunksNaming(topic_name) ==
    {i \in 1..Len(ret.chunks) : \E j \in 1..Len(ret.chunks[i].related_topics) :
                                    ret.chunks[i].related_topics[j] = topic_name}

\* C21: every topic of the discovery answer is in the returned index, in the
\* order of the answer, and its chunk_ids are the ids of the chunks whose
\* related_topics hold its name, in the order of the chunks; a topic that no
\* chunk names is there too, with no chunk id.
C21_TopicLinkage ==
    AnalyzeReturned =>
        /\ Len(ret.discovered_topics) = Len(local.data.discovered_topics)
        /\ \A t \in 1..Len(ret.discovered_topics) :
              LET topic == ret.discovered_topics[t]
                  naming == ChunksNaming(topic.topic)
              IN  /\ topic.topic = local.data.discovered_topics[t].topic
                  /\ Len(topic.chunk_ids) = Cardinality(naming)
                  /\ \A k \in 1..Len(topic.chunk_ids) :
                        \E i \in naming :
                            /\ Cardinality({j \in naming : j <= i}) = k
                            /\ topic.chunk_ids[k] = ret.chunks[i].id

C21_Witness ==
    /\ AnalyzeReturned
    /\ Len(ret.chunks) = 2
    /\ Len(ret.discovered_topics) = 2
    /\ ret.discovered_topics[1].topic = "T2"
    /\ ret.discovered_topics[1].chunk_ids = <<>>
    /\ ret.discovered_topics[2].topic = "T1"
    /\ ret.discovered_topics[2].chunk_ids = <<ret.chunks[1].id, ret.chunks[2].id>>

\* C22: in a DocumentIndex that analyze_document_fast returns, chunk i carries
\* under metadata['embedding'] vector i of the answer to the one embedding
\* request, and text i of that request is the body of the chunk, a space, and
\* its tags joined by single spaces; every returned chunk carries an embedding.
C22_EmbeddingPerChunk ==
    AnalyzeReturned =>
        /\ ret.chunks # <<>> =>
              /\ resp.kind = "embeddings"
              /\ Len(embedLog) = 1
              /\ Len(embedLog[1]) = Len(ret.chunks)
              /\ Len(resp.data) = Len(ret.chunks)
        /\ \A i \in 1..Len(ret.chunks) :
              /\ ret.chunks[i].metadata.has_embedding
              /\ ret.chunks[i].metadata.embedding = resp.data[i].embedding
              /\ resp.data[i].index = i - 1
              /\ embedLog[1][i] = ret.chunks[i].body \o <<Space>>
                                     \o JoinSpace(ret.chunks[i].semantic_tags)

C22_Witness ==
    /\ AnalyzeReturned
    /\ Len(ret.chunks) = 2
    /\ ret.chunks[1].metadata.embedding # ret.chunks[2].metadata.embedding
    /\ ret.chunks[2].metadata.embedding = resp.data[2].embedding
    /\ embedLog[1][1] = <<"a", " ", "u", " ", "t">>
    /\ embedLog[1][2] = <<"b", " ", "t">>

(***************************************************************************)
(* The loop of lines 109-131 of analyze_document_fast, over documents long *)
(* enough for a two-digit chunk index.                                     *)
(***************************************************************************)
\* two bodies: "a", and a body that opens with a digit and the separator
NumberedBodies == {TextField(<<"a">>), TextField(<<"0", "|", "|", "a">>)}

NumberedChunkDatas ==
    {[body |-> b, semantic_tags |-> AbsentField, related_topics |-> <<>>] :
        b \in NumberedBodies}

BuildChunksCall ==
    /\ pc = "idle"
    /\ \E f \in SourceFiles,
          cs \in UNION {[1..n -> NumberedChunkDatas] : n \in 0..MaxIndexed} :
        /\ args' = [source_file_name |-> f, data |-> [chunks |-> cs]]
        /\ ret' = BuildChunks(f, [chunks |-> cs])
    /\ op' = "build_chunks"
    /\ pc' = "done"
    /\ UNCHANGED <<local, chatLog, embedLog, resp, err>>

NextBuildChunks == BuildChunksCall

SpecBuildChunks == Idle /\ [][NextBuildChunks]_vars

ChunksBuilt == op = "build_chunks" /\ pc = "done"

\* C28: the chunks built for one document have, at different indexes,
\* different hashed strings and so different ids, whatever their bodies.
C28_DistinctIds ==
    ChunksBuilt =>
        /\ Len(ret) = Len(args.data.chunks)
        /\ \A i, j \in 1..Len(ret) :
              i # j => /\ ret[i].id.sha256_16 # ret[j].id.sha256_16
                       /\ ret[i].id # ret[j].id

\* eleven chunks: the one at index 1 has the body "0||a", the one at index 10
\* the body "a", and the ones at indexes 0 and 2 have the same body
C28_Witness ==
    /\ ChunksBuilt
    /\ Len(ret) = 11
    /\ ret[2].body = <<"0", "|", "|", "a">>
    /\ ret[11].body = <<"a">>
    /\ ret[1].body = ret[3].body
    /\ ret[2].id # ret[11].id

(***************************************************************************)
(* call_openai_with_retry of backend/app/routes_games.py                   *)
(***************************************************************************)
FailedAfterRetries == "Failed to get response after multiple retries"

\* a response without choices
NoChoices == [kind |-> "no_choices"]

\* line 124: `response and response.choices and ...message.content`
HasContent(answer) ==
    answer.kind = "chat" /\ ~answer.content.none /\ answer.content.text # <<>>

RetryRequest(messages, max_tokens) ==
    [kind |-> "games", messages |-> messages, max_tokens |-> max_tokens]

\* a variant of the loop that allows one attempt more
OneAttemptMore(attempt, max_retries) == attempt <= max_retries

\* line 113: `attempt` is in range(max_retries)
InRange(attempt, max_retries) == attempt < max_retries

RetryMessages == {<<"trivia">>, <<"riddle">>}
RetryMaxTokens == {1000, 4000}
RetryAnswers ==
    {NoChoices} \cup
    {[kind |-> "chat", content |-> c] :
        c \in {NoneContent, TextContent(<<>>), TextContent(<<Space>>), TextContent(<<"a">>)}}

\* the loop at its attempt `attempt` (from 0), lines 113-131: one more call,
\* or the raise of line 131
RetryLoop(attempt) ==
    IF InRange(attempt, args'.max_retries)
    THEN /\ pc' = "await_chat"
         /\ local' = [attempt |-> attempt]
         /\ chatLog' = Append(chatLog, RetryRequest(args'.messages, args'.max_tokens))
         /\ err' = err
    ELSE /\ pc' = "failed"
         /\ local' = local
         /\ chatLog' = chatLog
         /\ err' = FailedAfterRetries

\* the call, up to its first await (or the raise of line 131)
RetryCall ==
    /\ pc = "idle"
    /\ \E messages \in RetryMessages, max_tokens \in RetryMaxTokens,
          max_retries \in 0..MaxRetries :
        /\ op' = "retry"
        /\ args' = [messages |-> messages, max_tokens |-> max_tokens,
                    max_retries |-> max_retries]
    /\ RetryLoop(0)
    /\ UNCHANGED <<embedLog, resp, ret>>

\* the chat completion answers: lines 122-129
RetryChatReturns ==
    /\ op = "retry" /\ pc = "await_chat"
    /\ \E answer \in RetryAnswers :
        /\ resp' = answer
        /\ args' = args
        /\ IF HasContent(answer)
           THEN /\ pc' = "done"
                /\ ret' = answer.content.text
                /\ UNCHANGED <<local, chatLog, err>>
           ELSE /\ ret' = ret
                /\ RetryLoop(local.attempt + 1)
    /\ UNCHANGED <<op, embedLog>>

\* the chat completion raises: nothing catches it
RetryChatRaises ==
    /\ op = "retry" /\ pc = "await_chat"
    /\ resp' = RaisedBy("chat")
    /\ pc' = "failed"
    /\ err' = ChatServiceError
    /\ UNCHANGED <<op, args, local, chatLog, embedLog, ret>>

NextRetry == RetryCall \/ RetryChatReturns \/ RetryChatRaises

SpecRetry == Idle /\ [][NextRetry]_vars

\* the upstream service answers or raises every request it is sent, and the
\* event loop then resumes the coroutine
SpecRetryFair == SpecRetry /\ WF_vars(NextRetry)

RetryEnded == op = "retry" /\ pc \in {"done", "failed"}

\* what holds of the call at every moment
RetryBounded ==
    op = "retry" =>
        /\ Len(chatLog) <= args.max_retries
        /\ \A i \in 1..Len(chatLog) :
              chatLog[i] = RetryRequest(args.messages, args.max_tokens)
        /\ pc = "done" => HasContent(resp) /\ ret = resp.content.text
        /\ (pc = "failed" /\ err = FailedAfterRetries) =>
              /\ Len(chatLog) = args.max_retries
              /\ resp \in RetryAnswers \cup {NoResp}
              /\ resp # NoResp => ~HasContent(resp)
        /\ resp = RaisedBy("chat") => pc = "failed" /\ err = ChatServiceError

\* a step of the call that sends a request is the step of an answer without
\* content
CallsOnlyAfterEmpty ==
    (op = "retry" /\ Len(chatLog') > Len(chatLog)) =>
        /\ Len(chatLog') = Len(chatLog) + 1
        /\ resp' \in RetryAnswers
        /\ ~HasContent(resp')

\* C27: call_openai_with_retry ends, after at most max_retries requests; it
\* sends a further request only on an answer without content, returns the
\* content of the first answer that has one, raises when max_retries answers
\* had none, and ends with the upstream's error when a request raises.
C27_RetryTerminates ==
    /\ []RetryBounded
    /\ [][CallsOnlyAfterEmpty]_vars
    /\ <>RetryEnded

\* three answers without content, and the raise
C27_Witness ==
    /\ op = "retry"
    /\ args.max_retries = 3
    /\ Len(chatLog) = 3
    /\ pc = "failed"
    /\ err = FailedAfterRetries
    /\ ~HasContent(resp)

(***************************************************************************)
(* Requests served concurrently.  Each request is one coroutine running    *)
(* analyze_document_fast, fast_match_chunks or fast_generate_suggestion;   *)
(* the event loop interleaves the coroutines at their awaits.  In this     *)
(* specification every variable holds one value per request, and resp      *)
(* holds the answers the request has received so far.                      *)
(***************************************************************************)
Requests == {1, 2}

\* a coroutine suspended at an await, with the requests it has just sent
Suspended(at, locals, chat, embed) ==
    [pc |-> at, local |-> locals, ret |-> <<>>, err |-> NoError,
     chat |-> chat, embed |-> embed]

\* a coroutine that has ended with `outcome`
Finished(outcome, locals) ==
    [pc |-> IF outcome.raised # NoError THEN "failed" ELSE "done",
     local |-> locals, ret |-> outcome.value, err |-> outcome.raised,
     chat |-> <<>>, embed |-> <<>>]

\* the coroutine of `kind` called with `a`, up to its first await or its end
Started(kind, a) ==
    CASE kind = "suggest" ->                                  \* lines 294-348
           IF SuggestShortCircuits(a.matched_chunks)
           THEN Finished(Return(NA), <<>>)
           ELSE Suspended("await_chat", <<>>,
                          <<SuggestChatRequest(a.field_context, a.matched_chunks)>>, <<>>)
      [] kind = "match" ->                                    \* lines 230-242
           LET field_desc == FieldDescription(a.field_context)
           IN  IF EmbedShortCircuits(MatchEmbedBatch(field_desc))
               THEN Finished(MatchOutcome(Return(<<>>), a.all_chunks, a.top_k),
                             [field_desc |-> field_desc])
               ELSE Suspended("await_embed", [field_desc |-> field_desc],
                              <<>>, <<MatchEmbedBatch(field_desc)>>)
      [] kind = "analyze" ->                                  \* lines 73-78
           Suspended("await_chat", <<>>,
                     <<DiscoveryRequest(a.text, a.source_file_name)>>, <<>>)

\* lines 89-134 of analyze_document_fast, for the answer of the discovery call
AnalyzeParsed(a, answer) ==
    CASE answer.kind = "raise" -> Finished(Raise(ChatServiceError), <<>>)
      [] answer.kind = "chat" /\ answer.content.parses = "none" ->
           Finished(Raise("AttributeError"), <<>>)
      [] answer.kind = "chat" /\ answer.content.parses = "invalid" ->
           Finished(ParseFailure(a.source_file_name), <<>>)
      [] OTHER ->
           LET data == answer.content.data
               texts == TextsForEmbedding(data)
           IN  IF ChunksError(data) # NoError
               THEN Finished(Raise(ChunksError(data)), [data |-> data])
               ELSE IF EmbedShortCircuits(texts)
               THEN Finished(AnalyzeOutcome(a.source_file_name, data, Return(<<>>)),
                             [data |-> data])
               ELSE Suspended("await_embed", [data |-> data], <<>>,
                              AnalyzeEmbedRequests(texts))

\* the coroutine, resumed at the await `at` with `answer`, up to its next
\* await or its end
Resumed(kind, a, locals, at, answer) ==
    CASE kind = "suggest" ->                                  \* lines 360-388
           IF answer.kind = "raise"
           THEN Finished(SuggestOnError, locals)
           ELSE Finished(Return(PostProcess(answer.content)), locals)
      [] kind = "match" ->                                    \* lines 243-275
           Finished(MatchOutcome(EmbedOutcome(answer), a.all_chunks, a.top_k), locals)
      [] kind = "analyze" /\ at = "await_chat" -> AnalyzeParsed(a, answer)
      [] kind = "analyze" /\ at = "await_embed" ->           \* lines 136-177
           Finished(AnalyzeOutcome(a.source_file_name, locals.data, EmbedOutcome(answer)),
                    locals)

Awaits == {"await_chat", "await_embed"}

\* the whole call run on its own, given the answers of the upstream services
\* in the order the call awaits them
RunAlone(kind, a, answers) ==
    LET first == Started(kind, a)
        second == IF first.pc \in Awaits /\ Len(answers) >= 1
                  THEN Resumed(kind, a, first.local, first.pc, answers[1])
                  ELSE first
    IN  IF second.pc \in Awaits /\ Len(answers) >= 2
        THEN Resumed(kind, a, second.local, second.pc, answers[2])
        ELSE second

\* the calls and the upstream answers of the concurrent specification
ConcurrentVectors == {<<1, 0>>, <<1, 1>>}
ConcurrentCandidates ==
    {<<Chunk(1, "dict", "list", <<1, 0>>), Chunk(2, "dict", "list", <<1, 1>>)>>,
     <<Chunk(1, "dict", "absent", <<>>), Chunk(2, "dict", "list", <<1, 1>>)>>}
ConcurrentDatas ==
    {[discovered_topics |-> <<>>, chunks |-> <<>>],
     [discovered_topics |-> <<[topic |-> "T1"]>>,
      chunks |-> <<[body |-> TextField(<<"a">>), semantic_tags |-> TextField(<<<<"t">>>>),
                    related_topics |-> <<"T1">>]>>]}
ConcurrentCalls ==
    {<<"suggest", [field_context |-> fc, matched_chunks |-> mc]>> :
        fc \in FieldContexts, mc \in {<<>>, <<SuggestChunk>>}}
    \cup {<<"match", [field_context |-> [label_text |-> TextField(<<"e">>),
                                         placeholder |-> NullField,
                                         name_attr |-> AbsentField],
                      all_chunks |-> cs, top_k |-> 1]>> : cs \in ConcurrentCandidates}
    \cup {<<"analyze", [text |-> <<"d">>, source_file_name |-> <<"a">>]>>}

\* what the service that request r awaits can answer
AnswersTo(r) ==
    CASE pc[r] = "await_chat" /\ op[r] = "suggest" ->
           {[kind |-> "chat", content |-> c] :
               c \in {NoneContent, TextContent(<<"a">>), TextContent(NA)}}
           \cup {RaisedBy("chat")}
      [] pc[r] = "await_chat" /\ op[r] = "analyze" ->
           {[kind |-> "chat", content |-> c] :
               c \in {NotJsonAnswer} \cup {JsonAnswer(d) : d \in ConcurrentDatas}}
           \cup {RaisedBy("chat")}
      [] pc[r] = "await_embed" ->
           {[kind |-> "embeddings", data |-> EmbeddingData(vs)] :
               vs \in [1..Len(embedLog[r][Len(embedLog[r])]) -> ConcurrentVectors]}
           \cup {RaisedBy("embeddings")}

ConcurrentIdle ==
    /\ op = [r \in Requests |-> "none"]
    /\ pc = [r \in Requests |-> "idle"]
    /\ args = [r \in Requests |-> <<>>]
    /\ local = [r \in Requests |-> <<>>]
    /\ chatLog = [r \in Requests |-> <<>>]
    /\ embedLog = [r \in Requests |-> <<>>]
    /\ resp = [r \in Requests |-> <<>>]
    /\ ret = [r \in Requests |-> <<>>]
    /\ err = [r \in Requests |-> NoError]

\* request r goes on to `next`: only its own locals change
Proceeds(r, next) ==
    /\ pc' = [pc EXCEPT ![r] = next.pc]
    /\ local' = [local EXCEPT ![r] = next.local]
    /\ ret' = [ret EXCEPT ![r] = next.ret]
    /\ err' = [err EXCEPT ![r] = next.err]
    /\ chatLog' = [chatLog EXCEPT ![r] = @ \o next.chat]
    /\ embedLog' = [embedLog EXCEPT ![r] = @ \o next.embed]

\* a request arrives and its coroutine runs to its first await
ConcurrentCall(r) ==
    /\ pc[r] = "idle"
    /\ \E call \in ConcurrentCalls :
        /\ op' = [op EXCEPT ![r] = call[1]]
        /\ args' = [args EXCEPT ![r] = call[2]]
        /\ Proceeds(r, Started(call[1], call[2]))
    /\ resp' = resp

\* the answer to the request that r awaits arrives; r is not running yet
UpstreamAnswers(r) ==
    /\ pc[r] \in Awaits
    /\ \E answer \in AnswersTo(r) : resp' = [resp EXCEPT ![r] = Append(@, answer)]
    /\ pc' = [pc EXCEPT ![r] = IF @ = "await_chat" THEN "chat_answered"
                                                     ELSE "embed_answered"]
    /\ UNCHANGED <<op, args, local, chatLog, embedLog, ret, err>>

\* a variant in which the requests of one kind of call keep the k-th answer
\* in one place
SharedAnswer(r) ==
    LET k == Len(resp[r])
        sharing == {q \in Requests \ {r} : op[q] = op[r] /\ Len(resp[q]) >= k}
    IN  IF sharing = {} THEN resp[r][k] ELSE resp[CHOOSE q \in sharing : TRUE][k]

\* the answer the resumed coroutine of r sees: the result of its own await
DeliveredAnswer(r) == resp[r][Len(resp[r])]

\* the event loop resumes r, which runs to its next await or its end
ConcurrentResume(r) ==
    /\ pc[r] \in {"chat_answered", "embed_answered"}
    /\ Proceeds(r, Resumed(op[r], args[r], local[r],
                           IF pc[r] = "chat_answered" THEN "await_chat" ELSE "await_embed",
                           DeliveredAnswer(r)))
    /\ UNCHANGED <<op, args, resp>>

NextConcurrent ==
    \E r \in Requests :
        \/ ConcurrentCall(r)
        \/ UpstreamAnswers(r)
        \/ ConcurrentResume(r)

SpecConcurrent == ConcurrentIdle /\ [][NextConcurrent]_vars

RequestEnded(r) == pc[r] \in {"done", "failed"}

====
